---- MODULE Spec2Model ----
(***************************************************************************)
(* Model of crates/geohash/src/lib.rs: BoundingBox::intersects, the four   *)
(* child-cell constructors of GeoHashBBox and the level-synchronous search *)
(* geo_hashes_for_bounding_box.                                            *)
(*                                                                         *)
(* f64 bounds are modelled as dyadic rationals m / 2^e (the values on      *)
(* which f64 addition and halving are exact) plus NaN, which is unordered. *)
(* u64 codes are modelled as bit strings, most significant bit first,      *)
(* without leading zeros, truncated to 64 bits on every shift.             *)
(***************************************************************************)
EXTENDS Integers, Sequences, FiniteSets

VARIABLES world_b_box, b_box, zoom_level, queue, temp_queue, level, pc, result

vars == <<world_b_box, b_box, zoom_level, queue, temp_queue, level, pc, result>>

----------------------------------------------------------------------------
(* Bounds of the model *)

\* largest zoom_level explored with the broad input set
MaxZoom == 3

\* largest zoom_level explored with the deep (narrow) input set
MaxDeepZoom == 33

\* program constant: the width of the geo_hash field (u64)
U64_BITS == 64

----------------------------------------------------------------------------
(* f64 values: [nan, m, e] stands for m / 2^e, normalised so that equal    *)
(* numbers are equal records                                               *)

RECURSIVE Norm(_, _)
Norm(m, e) ==
    IF e > 0 /\ m % 2 = 0 THEN Norm(m \div 2, e - 1)
    ELSE [nan |-> FALSE, m |-> m, e |-> e]

F(m, e) == Norm(m, e)

NaN == [nan |-> TRUE, m |-> 0, e |-> 0]

\* m * 2^k
RECURSIVE Shl(_, _)
Shl(m, k) == IF k = 0 \/ m = 0 THEN m ELSE Shl(2 * m, k - 1)

\* am * 2^k < bm, without forming 2^k
RECURSIVE LtUp(_, _, _)
LtUp(am, bm, k) == IF k = 0 THEN am < bm ELSE LtUp(am, (bm + 1) \div 2, k - 1)

\* am < bm * 2^k, without forming 2^k
RECURSIVE LtDown(_, _, _)
LtDown(am, bm, k) == IF k = 0 THEN am < bm ELSE LtDown(am \div 2, bm, k - 1)

\* the order of two numbers (neither is NaN)
Less(a, b) ==
    IF a.e <= b.e THEN LtUp(a.m, b.m, b.e - a.e)
    ELSE LtDown(a.m, b.m, a.e - b.e)

Ordered(a, b) == ~a.nan /\ ~b.nan

\* f64 comparison operators: every comparison with NaN is false
Lt(a, b) == Ordered(a, b) /\ Less(a, b)
Gt(a, b) == Ordered(a, b) /\ Less(b, a)
Le(a, b) == Ordered(a, b) /\ ~Less(b, a)
Ge(a, b) == Ordered(a, b) /\ ~Less(a, b)

\* a + b
Add(a, b) ==
    IF a.nan \/ b.nan THEN NaN
    ELSE IF a.e >= b.e THEN Norm(a.m + Shl(b.m, a.e - b.e), a.e)
    ELSE Norm(Shl(a.m, b.e - a.e) + b.m, b.e)

\* a / 2.0
Half(a) == IF a.nan THEN NaN ELSE Norm(a.m, a.e + 1)

----------------------------------------------------------------------------
(* BoundingBox *)

BoundingBox(minLat, minLng, maxLat, maxLng) ==
    [min_lat |-> minLat, min_lng |-> minLng, max_lat |-> maxLat, max_lng |-> maxLng]

\* variant: the first comparison written >, so a shared latitude bound counts
intersects_FirstStrict(self, b_box2) ==
    IF \/ Gt(self.min_lat, b_box2.max_lat)
       \/ Le(self.max_lat, b_box2.min_lat)
       \/ Ge(self.min_lng, b_box2.max_lng)
       \/ Le(self.max_lng, b_box2.min_lng)
    THEN FALSE
    ELSE TRUE

\* variant: the second comparison written <, so a shared latitude bound counts
intersects_SecondStrict(self, b_box2) ==
    IF \/ Ge(self.min_lat, b_box2.max_lat)
       \/ Lt(self.max_lat, b_box2.min_lat)
       \/ Ge(self.min_lng, b_box2.max_lng)
       \/ Le(self.max_lng, b_box2.min_lng)
    THEN FALSE
    ELSE TRUE

intersects(self, b_box2) ==
    IF \/ Ge(self.min_lat, b_box2.max_lat)
       \/ Le(self.max_lat, b_box2.min_lat)
       \/ Ge(self.min_lng, b_box2.max_lng)
       \/ Le(self.max_lng, b_box2.min_lng)
    THEN FALSE
    ELSE TRUE

----------------------------------------------------------------------------
(* u64 codes *)

BOTTOM_LEFT_QUAD == 0
BOTTOM_RIGHT_QUAD == 2
TOP_RIGHT_QUAD == 3
TOP_LEFT_QUAD == 1

\* the two bits of a quadrant tag
QuadBits(quad) == <<quad \div 2, quad % 2>>

RECURSIVE StripZeros(_)
StripZeros(bits) ==
    IF bits # <<>> /\ Head(bits) = 0 THEN StripZeros(Tail(bits)) ELSE bits

\* the low U64_BITS bits of a bit string, as a u64
Wrap(bits) ==
    IF Len(bits) > U64_BITS
    THEN StripZeros(SubSeq(bits, Len(bits) - U64_BITS + 1, Len(bits)))
    ELSE StripZeros(bits)

\* variant: geo_hash << 1 | quad
ShiftOr_OneBit(geo_hash, quad) ==
    Wrap(SubSeq(geo_hash, 1, Len(geo_hash) - 1)
         \o <<IF geo_hash[Len(geo_hash)] = 1 \/ quad \div 2 = 1 THEN 1 ELSE 0, quad % 2>>)

\* geo_hash << 2 | quad
ShiftOr(geo_hash, quad) == Wrap(geo_hash \o QuadBits(quad))

\* the root code 1
ROOT == <<1>>

GeoHashBBox(geo_hash, box) == [geo_hash |-> geo_hash, b_box |-> box]

\* variant: the top-left code built with the bottom-right tag
next_top_left_geo_hash_WrongTag(self) == Wrap(self.geo_hash \o QuadBits(BOTTOM_RIGHT_QUAD))

\* variant: geo_hash << 3 | TOP_RIGHT_QUAD
next_top_right_geo_hash_Shift3(self) ==
    Wrap(self.geo_hash \o <<0>> \o QuadBits(TOP_RIGHT_QUAD))

next_bottom_left_geo_hash(self) == ShiftOr(self.geo_hash, BOTTOM_LEFT_QUAD)
next_bottom_right_geo_hash(self) == ShiftOr(self.geo_hash, BOTTOM_RIGHT_QUAD)
next_top_left_geo_hash(self) == ShiftOr(self.geo_hash, TOP_LEFT_QUAD)
next_top_right_geo_hash(self) == ShiftOr(self.geo_hash, TOP_RIGHT_QUAD)

\* variant: (max - min) / 2.0
Mid_HalfWidth(lo, hi) ==
    Half(Add(hi, IF lo.nan THEN NaN ELSE Norm(0 - lo.m, lo.e)))

\* (min + max) / 2.0
Mid(lo, hi) == Half(Add(lo, hi))

mid_lat(self) == Mid(self.b_box.min_lat, self.b_box.max_lat)
mid_lng(self) == Mid(self.b_box.min_lng, self.b_box.max_lng)

next_bottom_left_bounding_box(self) ==
    BoundingBox(self.b_box.min_lat, self.b_box.min_lng, mid_lat(self), mid_lng(self))

next_bottom_right_bounding_box(self) ==
    BoundingBox(self.b_box.min_lat, mid_lng(self), mid_lat(self), self.b_box.max_lng)

next_top_left_bounding_box(self) ==
    BoundingBox(mid_lat(self), self.b_box.min_lng, self.b_box.max_lat, mid_lng(self))

\* variant: min_lat taken from the parent's max_lat
next_top_right_bounding_box_Flat(self) ==
    BoundingBox(self.b_box.max_lat, mid_lng(self), self.b_box.max_lat, self.b_box.max_lng)

next_top_right_bounding_box(self) ==
    BoundingBox(mid_lat(self), mid_lng(self), self.b_box.max_lat, self.b_box.max_lng)

\* variant: the children pushed in tag order 00, 01, 10, 11
next_level_geo_hash_bbox_TagOrder(self) ==
    << GeoHashBBox(next_bottom_left_geo_hash(self), next_bottom_left_bounding_box(self)),
       GeoHashBBox(next_top_left_geo_hash(self), next_top_left_bounding_box(self)),
       GeoHashBBox(next_bottom_right_geo_hash(self), next_bottom_right_bounding_box(self)),
       GeoHashBBox(next_top_right_geo_hash(self), next_top_right_bounding_box(self)) >>

\* variant: the bottom-left child pushed twice
next_level_geo_hash_bbox_Duplicate(self) ==
    << GeoHashBBox(next_bottom_left_geo_hash(self), next_bottom_left_bounding_box(self)),
       GeoHashBBox(next_bottom_left_geo_hash(self), next_bottom_left_bounding_box(self)),
       GeoHashBBox(next_top_right_geo_hash(self), next_top_right_bounding_box(self)),
       GeoHashBBox(next_bottom_right_geo_hash(self), next_bottom_right_bounding_box(self)),
       GeoHashBBox(next_top_left_geo_hash(self), next_top_left_bounding_box(self)) >>

next_level_geo_hash_bbox(self) ==
    << GeoHashBBox(next_bottom_left_geo_hash(self), next_bottom_left_bounding_box(self)),
       GeoHashBBox(next_top_right_geo_hash(self), next_top_right_bounding_box(self)),
       GeoHashBBox(next_bottom_right_geo_hash(self), next_bottom_right_bounding_box(self)),
       GeoHashBBox(next_top_left_geo_hash(self), next_top_left_bounding_box(self)) >>

----------------------------------------------------------------------------
(* geo_hashes_for_bounding_box *)

\* variant: the root cell filtered like every other cell
InitialQueue_Filtered(world, query) ==
    IF intersects(world, query) THEN << GeoHashBBox(<<1>>, world) >> ELSE <<>>

\* the queue the function starts from
InitialQueue(world, query) == << GeoHashBBox(ROOT, world) >>

Keep(query, g) == intersects(g.b_box, query)

\* the inner while loop: the children of front that are pushed to temp_queue
Retained(front, query) ==
    SelectSeq(next_level_geo_hash_bbox(front), LAMBDA g : Keep(query, g))

\* queue.append(&mut temp_queue)
append(q, t) == q \o t

RECURSIVE Codes(_)
Codes(q) == IF q = <<>> THEN <<>> ELSE <<Head(q).geo_hash>> \o Codes(Tail(q))

\* one iteration of the for loop applied to a whole frontier
RECURSIVE NextFrontier(_, _)
NextFrontier(q, query) ==
    IF q = <<>> THEN <<>>
    ELSE Retained(Head(q), query) \o NextFrontier(Tail(q), query)

\* the frontier after k iterations of the for loop
RECURSIVE Frontier(_, _, _)
Frontier(world, query, k) ==
    IF k = 0 THEN InitialQueue(world, query)
    ELSE append(<<>>, NextFrontier(Frontier(world, query, k - 1), query))

\* the function as a whole
geo_hashes_for_bounding_box(world, query, zoom) == Codes(Frontier(world, query, zoom))

----------------------------------------------------------------------------
(* Inputs *)

LatVals == {F(-1, 0), F(1, 0), F(2, 0), F(3, 0), F(4, 0), NaN}
LngVals == {F(-3, 0), F(-2, 0), F(-1, 0), F(1, 0), NaN}

QueryBoxes ==
    {BoundingBox(a, b, c, d) : a \in LatVals, b \in LngVals, c \in LatVals, d \in LngVals}

\* an ordinary world box, one with inverted latitude bounds, one of zero
\* height, one with a NaN bound
WorldBoxes ==
    { BoundingBox(F(0, 0), F(-3, 0), F(4, 0), F(-1, 0)),
      BoundingBox(F(4, 0), F(-3, 0), F(0, 0), F(-1, 0)),
      BoundingBox(F(2, 0), F(-3, 0), F(2, 0), F(-1, 0)),
      BoundingBox(NaN, F(-3, 0), F(4, 0), F(-1, 0)) }

\* the world box of the test module and two of its scenarios
TestWorld == BoundingBox(F(-90, 0), F(-180, 0), F(90, 0), F(180, 0))
TestQuery2 == BoundingBox(F(1, 0), F(1, 0), F(3, 0), F(3, 0))
TestQuery3 == BoundingBox(F(44, 0), F(46, 0), F(50, 0), F(50, 0))

Inputs ==
    (WorldBoxes \X QueryBoxes \X (0..MaxZoom))
    \cup {<<TestWorld, TestQuery2, 2>>, <<TestWorld, TestQuery3, 3>>}

\* deep searches: a unit world box and query boxes that keep one cell per level
Tiny == F(1, 40)
DeepIntervals == {<<F(-1, 0), Tiny>>, <<Tiny, Tiny>>}
DeepInputs ==
    { <<BoundingBox(F(0, 0), F(0, 0), F(1, 0), F(1, 0)),
        BoundingBox(lat[1], lng[1], lat[2], lng[2]), z>> :
        lat \in DeepIntervals, lng \in DeepIntervals, z \in 30..MaxDeepZoom }

Start(inputs) ==
    /\ \E i \in inputs :
          /\ world_b_box = i[1]
          /\ b_box = i[2]
          /\ zoom_level = i[3]
    /\ queue = InitialQueue(world_b_box, b_box)
    /\ temp_queue = <<>>
    /\ level = 0
    /\ pc = "loop"
    /\ result = <<>>

Init == Start(Inputs)

DeepInit == Start(DeepInputs)

\* one pass of the outer while loop: pop a parent, push its retained children
PopFront ==
    /\ pc = "loop"
    /\ level < zoom_level
    /\ queue # <<>>
    /\ temp_queue' = temp_queue \o Retained(Head(queue), b_box)
    /\ queue' = Tail(queue)
    /\ UNCHANGED <<world_b_box, b_box, zoom_level, level, pc, result>>

\* the end of one iteration of the for loop
EndLevel ==
    /\ pc = "loop"
    /\ level < zoom_level
    /\ queue = <<>>
    /\ queue' = append(queue, temp_queue)
    /\ temp_queue' = <<>>
    /\ level' = level + 1
    /\ UNCHANGED <<world_b_box, b_box, zoom_level, pc, result>>

\* the final collect
Collect ==
    /\ pc = "loop"
    /\ level = zoom_level
    /\ result' = Codes(queue)
    /\ pc' = "done"
    /\ UNCHANGED <<world_b_box, b_box, zoom_level, queue, temp_queue, level>>

Next == PopFront \/ EndLevel \/ Collect

Spec == Init /\ [][Next]_vars

DeepSpec == DeepInit /\ [][Next]_vars

\* the stepwise execution computes the function
ResultIsFunction ==
    pc = "done" => result = geo_hashes_for_bounding_box(world_b_box, b_box, zoom_level)

\* test_geo_hashes_for_bounding_box_zoom_level_2: one code, binary 11100
TestScenarioLevel2 ==
    (pc = "done" /\ world_b_box = TestWorld /\ b_box = TestQuery2 /\ zoom_level = 2)
        => result = << <<1, 1, 1, 0, 0>> >>


----------------------------------------------------------------------------
(* Vocabulary of the properties *)

Range(seq) == {seq[i] : i \in 1..Len(seq)}

\* f64 equality
Eq(a, b) == Ordered(a, b) /\ a = b

\* number of significant bits of a code
BitLength(code) == Len(code)

\* code >> 2
Shr2(code) == IF Len(code) <= 2 THEN <<>> ELSE SubSeq(code, 1, Len(code) - 2)

RECURSIVE Pow4(_)
Pow4(k) == IF k = 0 THEN 1 ELSE 4 * Pow4(k - 1)

Done == pc = "done"

\* min < max on both axes
StrictBox(b) == Lt(b.min_lat, b.max_lat) /\ Lt(b.min_lng, b.max_lng)

\* min <= max on both axes
OrderedBox(b) == Le(b.min_lat, b.max_lat) /\ Le(b.min_lng, b.max_lng)

NoNaN(b) == ~b.min_lat.nan /\ ~b.min_lng.nan /\ ~b.max_lat.nan /\ ~b.max_lng.nan

\* the open-intersection rule as the four strict inequalities
StrictOverlap(A, B) ==
    /\ Lt(A.min_lat, B.max_lat)
    /\ Gt(A.max_lat, B.min_lat)
    /\ Lt(A.min_lng, B.max_lng)
    /\ Gt(A.max_lng, B.min_lng)

\* a bound of one box equals the opposite bound of the other on some axis
SharesBound(A, B) ==
    \/ Eq(A.max_lat, B.min_lat)
    \/ Eq(A.min_lat, B.max_lat)
    \/ Eq(A.max_lng, B.min_lng)
    \/ Eq(A.min_lng, B.max_lng)

\* the cell the next pass of the while loop subdivides
Parents ==
    IF pc = "loop" /\ level < zoom_level /\ queue # <<>> THEN {Head(queue)} ELSE {}

\* the boxes at hand: the world box, the cell about to be subdivided and its
\* children, which the next pass tests against the query box
LiveBoxes ==
    {world_b_box}
    \cup {g.b_box : g \in Parents}
    \cup UNION {{c.b_box : c \in Range(next_level_geo_hash_bbox(g))} : g \in Parents}

(* The quadtree described independently of the traversal: a cell is a path *)
(* of half choices <<latHalf, lngHalf>>, 0 the lower half and 1 the upper. *)

Halves == {0, 1} \X {0, 1}

Paths(d) == [1..d -> Halves]

RefHalfBox(b, h) ==
    BoundingBox(IF h[1] = 0 THEN b.min_lat ELSE Mid(b.min_lat, b.max_lat),
                IF h[2] = 0 THEN b.min_lng ELSE Mid(b.min_lng, b.max_lng),
                IF h[1] = 0 THEN Mid(b.min_lat, b.max_lat) ELSE b.max_lat,
                IF h[2] = 0 THEN Mid(b.min_lng, b.max_lng) ELSE b.max_lng)

RECURSIVE RefBox(_, _)
RefBox(world, path) ==
    IF path = <<>> THEN world
    ELSE RefHalfBox(RefBox(world, SubSeq(path, 1, Len(path) - 1)), path[Len(path)])

\* tag 00 lower-lat/lower-lng, 01 upper-lat/lower-lng, 10 lower-lat/upper-lng, 11 upper/upper
RefTag(h) == <<h[2], h[1]>>

RECURSIVE RefCode(_)
RefCode(path) ==
    IF path = <<>> THEN <<1>>
    ELSE RefCode(SubSeq(path, 1, Len(path) - 1)) \o RefTag(path[Len(path)])

\* the codes of all depth-d cells of the world box that openly intersect the query box
RefCells(world, query, d) ==
    {RefCode(p) : p \in {x \in Paths(d) : StrictOverlap(RefBox(world, x), query)}}

----------------------------------------------------------------------------
(* C1 *)

\* C1: for a world box with min < max on both axes and a query box with
\* min <= max on both axes, the codes returned for depth d >= 1 are exactly the
\* codes of all depth-d quadtree cells whose rectangle openly intersects the
\* query box: pruning loses no such cell and returns no other.
C1_ExactCover ==
    (Done /\ zoom_level >= 1 /\ StrictBox(world_b_box) /\ OrderedBox(b_box))
        => Range(result) = RefCells(world_b_box, b_box, zoom_level)

\* some cells were pruned at the deepest level explored and several survived
C1_Witness ==
    /\ Done /\ zoom_level = MaxZoom
    /\ StrictBox(world_b_box) /\ OrderedBox(b_box)
    /\ Len(result) >= 2
    /\ Len(result) < Pow4(zoom_level)

----------------------------------------------------------------------------
(* C2 *)

\* C2: for every world box and query box, depth 0 returns exactly [1]; the
\* root cell is not filtered.
C2_DepthZero == (Done /\ zoom_level = 0) => result = << <<1>> >>

\* depth 0 on an inverted world box that the query box does not intersect
C2_Witness ==
    /\ Done /\ zoom_level = 0
    /\ Gt(world_b_box.min_lat, world_b_box.max_lat)
    /\ ~intersects(world_b_box, b_box)
    /\ result = << <<1>> >>

----------------------------------------------------------------------------
(* C3 *)

\* the deepest level at which the sentinel bit still fits the geo_hash field
MaxSentinelDepth == (U64_BITS - 1) \div 2

\* C3 as stated: every code returned for depth d has bit length 2*d + 1, for
\* every depth the function accepts.
C3_BitLengthAnyDepth ==
    Done => \A i \in 1..Len(result) : BitLength(result[i]) = 2 * zoom_level + 1

\* C3 amended: every code returned for depth d has bit length 2*d + 1 as long
\* as 2*d + 1 fits the 64-bit code, that is for d <= 31.
C3_BitLengthUpTo31 ==
    (Done /\ zoom_level <= MaxSentinelDepth)
        => \A i \in 1..Len(result) : BitLength(result[i]) = 2 * zoom_level + 1

\* a code returned at the deepest level that still fits
C3_Witness ==
    /\ Done /\ zoom_level = MaxSentinelDepth
    /\ result # <<>>
    /\ BitLength(result[1]) = U64_BITS - 1

----------------------------------------------------------------------------
(* C4 *)

----------------------------------------------------------------------------
(* C5 *)

\* C5 as stated: for all world boxes and query boxes, inverted ones included,
\* a query box that does not intersect the world box gives the empty result at
\* every depth >= 1.
C5_DisjointEmptyAnyBox ==
    (Done /\ zoom_level >= 1 /\ ~intersects(world_b_box, b_box)) => result = <<>>

\* C5 amended: for every world box with min <= max on both axes and every
\* query box, a query box that does not intersect the world box gives the
\* empty result at every depth >= 1.
C5_DisjointEmptyOrderedWorld ==
    (Done /\ zoom_level >= 1 /\ OrderedBox(world_b_box)
          /\ ~intersects(world_b_box, b_box))
        => result = <<>>

\* a disjoint query box (sharing the world box's upper latitude edge) searched
\* to the deepest level
C5_Witness ==
    /\ Done /\ zoom_level = MaxZoom
    /\ StrictBox(world_b_box)
    /\ ~intersects(world_b_box, b_box)
    /\ Eq(b_box.min_lat, world_b_box.max_lat)
    /\ NoNaN(b_box)
    /\ result = <<>>

----------------------------------------------------------------------------
(* C6 *)

\* the fixed emission order: lower/lower, upper/upper, lower-lat/upper-lng,
\* upper-lat/lower-lng
EmissionOrder == << <<0, 0>>, <<1, 1>>, <<0, 1>>, <<1, 0>> >>

RefChild(parent, h) ==
    GeoHashBBox(parent.geo_hash \o RefTag(h), RefHalfBox(parent.b_box, h))

RefRetained(parent, query) ==
    SelectSeq([i \in 1..4 |-> RefChild(parent, EmissionOrder[i])],
              LAMBDA g : intersects(g.b_box, query))

RECURSIVE RefConcat(_, _)
RefConcat(frontier, query) ==
    IF frontier = <<>> THEN <<>>
    ELSE Codes(RefRetained(Head(frontier), query)) \o RefConcat(Tail(frontier), query)

\* C6: the result for depth d >= 1 is the concatenation, over the depth-(d-1)
\* frontier in its order, of each parent's retained children in the order tag
\* 00, 11, 10, 01; and the test scenario world (-90,-180,90,180), query
\* (44,46,50,50), depth 3 gives [0b1110011, 0b1110110] in that order.
C6_OutputOrder ==
    /\ (Done /\ zoom_level >= 1)
          => result = RefConcat(Frontier(world_b_box, b_box, zoom_level - 1), b_box)
    /\ (Done /\ world_b_box = TestWorld /\ b_box = TestQuery3 /\ zoom_level = 3)
          => result = << <<1, 1, 1, 0, 0, 1, 1>>, <<1, 1, 1, 0, 1, 1, 0>> >>

\* the level-3 test scenario has run
C6_Witness ==
    /\ Done /\ world_b_box = TestWorld /\ b_box = TestQuery3 /\ zoom_level = 3
    /\ Len(result) = 2

----------------------------------------------------------------------------
(* C7 *)

ExactlyOne(p, q) == (p \/ q) /\ ~(p /\ q)

\* the query box has an edge on the latitude midpoint of the live cell g and
\* overlaps the longitude extent of the sibling pair <<lower, upper>>
OnLatBoundary(g, lower) ==
    /\ Eq(b_box.min_lat, mid_lat(g)) \/ Eq(b_box.max_lat, mid_lat(g))
    /\ Lt(b_box.min_lng, lower.max_lng) /\ Gt(b_box.max_lng, lower.min_lng)

OnLngBoundary(g, lower) ==
    /\ Eq(b_box.min_lng, mid_lng(g)) \/ Eq(b_box.max_lng, mid_lng(g))
    /\ Lt(b_box.min_lat, lower.max_lat) /\ Gt(b_box.max_lat, lower.min_lat)

\* the sibling pairs of g adjacent across its latitude midpoint
LatPairs(g) ==
    { <<next_bottom_left_bounding_box(g), next_top_left_bounding_box(g)>>,
      <<next_bottom_right_bounding_box(g), next_top_right_bounding_box(g)>> }

\* the sibling pairs of g adjacent across its longitude midpoint
LngPairs(g) ==
    { <<next_bottom_left_bounding_box(g), next_bottom_right_bounding_box(g)>>,
      <<next_top_left_bounding_box(g), next_top_right_bounding_box(g)>> }

\* the midpoint of g lies strictly between its bounds on the axis
LatSplit(g) == Lt(g.b_box.min_lat, mid_lat(g)) /\ Lt(mid_lat(g), g.b_box.max_lat)
LngSplit(g) == Lt(g.b_box.min_lng, mid_lng(g)) /\ Lt(mid_lng(g), g.b_box.max_lng)

\* C7 as stated: for every query box with an edge exactly on the boundary
\* shared by two sibling cells, and overlapping them on the other axis,
\* exactly one of the two cells passes the intersection test (stated here for
\* the query boxes with min <= max only, which is already refuted).
C7_ExactlyOneSideAnyQuery ==
    \A g \in Parents :
        /\ (LatSplit(g) /\ OrderedBox(b_box)) =>
              \A pr \in LatPairs(g) :
                  OnLatBoundary(g, pr[1])
                      => ExactlyOne(intersects(pr[1], b_box), intersects(pr[2], b_box))
        /\ (LngSplit(g) /\ OrderedBox(b_box)) =>
              \A pr \in LngPairs(g) :
                  OnLngBoundary(g, pr[1])
                      => ExactlyOne(intersects(pr[1], b_box), intersects(pr[2], b_box))

\* C7 amended: the same for every query box with min < max on the axis
\* perpendicular to the boundary (a query box of zero or negative extent on
\* that axis is attributed to neither side).
C7_ExactlyOneSidePositiveExtent ==
    \A g \in Parents :
        /\ (LatSplit(g) /\ Lt(b_box.min_lat, b_box.max_lat)) =>
              \A pr \in LatPairs(g) :
                  OnLatBoundary(g, pr[1])
                      => ExactlyOne(intersects(pr[1], b_box), intersects(pr[2], b_box))
        /\ (LngSplit(g) /\ Lt(b_box.min_lng, b_box.max_lng)) =>
              \A pr \in LngPairs(g) :
                  OnLngBoundary(g, pr[1])
                      => ExactlyOne(intersects(pr[1], b_box), intersects(pr[2], b_box))

\* a live cell below the root whose latitude midpoint carries the lower edge
\* of a query box of positive height, which is attributed to the upper cell
C7_Witness ==
    \E g \in Parents :
        /\ level >= 1
        /\ LatSplit(g) /\ Lt(b_box.min_lat, b_box.max_lat)
        /\ Eq(b_box.min_lat, mid_lat(g))
        /\ \E pr \in LatPairs(g) :
              /\ OnLatBoundary(g, pr[1])
              /\ ~intersects(pr[1], b_box)
              /\ intersects(pr[2], b_box)

----------------------------------------------------------------------------
(* C8 *)

\* C8: the returned sequence has at most 4^d elements, and after k iterations
\* of the level loop the live frontier holds at most 4^k cells.
C8_Cardinality ==
    /\ Len(queue) <= Pow4(level)
    /\ Done => Len(result) <= Pow4(zoom_level)

\* nothing is pruned down to the deepest level: the bound is attained
C8_Witness == Done /\ zoom_level = MaxZoom /\ Len(result) = Pow4(MaxZoom)

----------------------------------------------------------------------------
(* C9 *)

\* C9 as stated: for any two boxes, intersects holds iff the four strict
\* inequalities hold, and two boxes sharing a bound on some axis never
\* intersect, in either argument order.
C9_StrictIffAnyBox ==
    \A c \in LiveBoxes :
        /\ intersects(c, b_box) = StrictOverlap(c, b_box)
        /\ intersects(b_box, c) = StrictOverlap(b_box, c)
        /\ SharesBound(c, b_box) => (~intersects(c, b_box) /\ ~intersects(b_box, c))

\* C9 amended: for any two boxes none of whose bounds is NaN, intersects holds
\* iff the four strict inequalities hold; and two boxes sharing a bound on
\* some axis never intersect, in either argument order.
C9_StrictIffNoNaN ==
    \A c \in LiveBoxes :
        /\ (NoNaN(c) /\ NoNaN(b_box)) =>
              /\ intersects(c, b_box) = StrictOverlap(c, b_box)
              /\ intersects(b_box, c) = StrictOverlap(b_box, c)
        /\ SharesBound(c, b_box) => (~intersects(c, b_box) /\ ~intersects(b_box, c))

\* a cell two levels below the root that overlaps the query box in longitude
\* and shares only a latitude bound with it
C9_Witness ==
    \E c \in LiveBoxes :
        /\ level >= 1
        /\ NoNaN(c) /\ NoNaN(b_box)
        /\ StrictBox(c) /\ StrictBox(b_box)
        /\ Eq(c.max_lat, b_box.min_lat)
        /\ Lt(c.min_lng, b_box.max_lng) /\ Gt(c.max_lng, b_box.min_lng)
        /\ ~intersects(c, b_box) /\ ~intersects(b_box, c)

----------------------------------------------------------------------------
(* C10 *)

\* C10: for a world box with min < max on both axes and a query box with
\* min < max on both axes that intersects it, the frontier is non-empty
\* after every iteration, so the result is non-empty at every depth.
C10_NonEmpty ==
    (StrictBox(world_b_box) /\ StrictBox(b_box) /\ intersects(world_b_box, b_box))
        => /\ (pc = "loop" /\ queue = <<>>) => temp_queue # <<>>
           /\ Done => result # <<>>

\* a query box with an edge on the world box's latitude midpoint, searched to
\* the deepest level with part of the world pruned
C10_Witness ==
    /\ Done /\ zoom_level = MaxZoom
    /\ StrictBox(world_b_box) /\ StrictBox(b_box)
    /\ intersects(world_b_box, b_box)
    /\ Eq(b_box.min_lat, Mid(world_b_box.min_lat, world_b_box.max_lat))
    /\ result # <<>>
    /\ Len(result) < Pow4(MaxZoom)

\* the case C10 leaves out: a query box of zero height on a cell boundary
\* intersects the world box and yet nothing is returned
C10_ZeroExtentLost ==
    /\ Done /\ zoom_level >= 1
    /\ StrictBox(world_b_box) /\ OrderedBox(b_box)
    /\ Eq(b_box.min_lat, b_box.max_lat)
    /\ intersects(world_b_box, b_box)
    /\ result = <<>>

====
